---- MODULE Spec2Model ----
(***************************************************************************)
(* Model of the PdfConvert class of src/src/pdf-convert.ts: a session that *)
(* lazily writes its source to a temporary file and runs Ghostscript on    *)
(* it.  Text is modelled as sequences of one-character strings, a file as  *)
(* a record holding its bytes, and every await of the class as one step of *)
(* the caller that is suspended on it.                                     *)
(***************************************************************************)
EXTENDS Integers, Sequences, FiniteSets, TLC

\* ------------------------------------------------------------ bounds
MaxFiles == 3
MaxOutLen == 3
MaxTail == 3
MaxStdoutLen == 2

\* ------------------------------------------------------------ text helpers
Min(a, b) == IF a <= b THEN a ELSE b

Digits == {"0", "1", "2", "3", "4", "5", "6", "7", "8", "9"}

IsDigit(c) == c \in Digits

\* the characters the regular expression dot does not match
LineTerminators == {"\n", "\r"}

WhiteSpace == {" ", "\t", "\n", "\r"}

Repeat(c, n) == [i \in 1..n |-> c]

\* String.prototype.trim
RECURSIVE TrimLeft(_)
TrimLeft(s) == IF s # <<>> /\ Head(s) \in WhiteSpace THEN TrimLeft(Tail(s)) ELSE s

RECURSIVE TrimRight(_)
TrimRight(s) ==
    IF s # <<>> /\ s[Len(s)] \in WhiteSpace
    THEN TrimRight(SubSeq(s, 1, Len(s) - 1))
    ELSE s

Trim(s) == TrimRight(TrimLeft(s))

\* String.prototype.split with a one-character separator
RECURSIVE SplitFrom(_, _, _)
SplitFrom(s, sep, cur) ==
    IF s = <<>> THEN <<cur>>
    ELSE IF Head(s) = sep THEN <<cur>> \o SplitFrom(Tail(s), sep, <<>>)
    ELSE SplitFrom(Tail(s), sep, Append(cur, Head(s)))

Split(s, sep) == SplitFrom(s, sep, <<>>)

\* ------------------------------------------------------------ getPdfVersion
\* createReadStream(path, {start: 0, end: 1024}): both offsets are inclusive
ReadStart == 0
ReadEnd == 1024

FallbackVersion == <<"1", ".", "4">>

VersionTagLen == 8

\* the first chunk of the stream: the bytes ReadStart..ReadEnd of the file
FirstChunkAlt(data) == SubSeq(data, ReadStart + 1, Min(Len(data), ReadEnd))
FirstChunk(data) == SubSeq(data, ReadStart + 1, Min(Len(data), ReadEnd + 1))

\* /%PDF-[0-9].[0-9]/ matched at position i of s
RegexAtAlt(s, i) ==
    /\ i + VersionTagLen - 1 <= Len(s)
    /\ SubSeq(s, i, i + 4) = <<"%", "P", "D", "F", "-">>
    /\ IsDigit(s[i + 5])
    /\ s[i + 6] = "."
    /\ IsDigit(s[i + 7])
RegexAt(s, i) ==
    /\ i + VersionTagLen - 1 <= Len(s)
    /\ SubSeq(s, i, i + 4) = <<"%", "P", "D", "F", "-">>
    /\ IsDigit(s[i + 5])
    /\ s[i + 6] \notin LineTerminators
    /\ IsDigit(s[i + 7])

\* firstChunk.match(regex) with the g flag: the matches in order, or none
MatchStarts(s) == {i \in 1..Len(s) : RegexAt(s, i)}

FirstMatch(s) ==
    LET i == CHOOSE j \in MatchStarts(s) : \A k \in MatchStarts(s) : j <= k
    IN SubSeq(s, i, i + VersionTagLen - 1)

VersionOfMatch(found0) ==
    LET pdfVersionData == Split(found0, "-")
    IN IF Len(pdfVersionData) = 2 THEN Trim(pdfVersionData[2]) ELSE FallbackVersion

PdfVersionOf(data) ==
    LET firstChunk == FirstChunk(data)
    IN IF MatchStarts(firstChunk) # {}
       THEN VersionOfMatch(FirstMatch(firstChunk))
       ELSE FallbackVersion

\* ------------------------------------------------------------ getPageCount
\* a parseInt result is <<n>>, and NaN is the empty tuple
NaN == <<>>

Num(n) == <<n>>

\* stdout.replace(/\D/g, '')
StripNonDigitsAlt(s) == s
StripNonDigits(s) == SelectSeq(s, IsDigit)

DigitValue(c) == CHOOSE n \in 0..9 : ToString(n) = c

RECURSIVE DigitsPrefix(_)
DigitsPrefix(s) ==
    IF s # <<>> /\ IsDigit(Head(s)) THEN <<Head(s)>> \o DigitsPrefix(Tail(s)) ELSE <<>>

RECURSIVE DecimalValue(_)
DecimalValue(ds) ==
    IF ds = <<>> THEN 0
    ELSE 10 * DecimalValue(SubSeq(ds, 1, Len(ds) - 1)) + DigitValue(ds[Len(ds)])

\* parseInt(s): leading white space, an optional sign, then the longest run of
\* digits; NaN when that run is empty
ParseInt(s) ==
    LET t == TrimLeft(s)
        neg == t # <<>> /\ Head(t) = "-"
        u == IF t # <<>> /\ Head(t) \in {"-", "+"} THEN Tail(t) ELSE t
        ds == DigitsPrefix(u)
    IN IF ds = <<>> THEN NaN
       ELSE IF neg THEN Num(0 - DecimalValue(ds)) ELSE Num(DecimalValue(ds))

PageCountOf(stdout) == ParseInt(StripNonDigits(stdout))


\* ------------------------------------------------------------ session state
\* the slots of calls in flight; serialized callers only ever use slot 1
Slots == {1, 2}

Ids == 1..MaxFiles

Ops == {"convertPageToImage", "shrink", "getPdfVersion", "getPageCount", "dispose"}

Tag13 == <<"%", "P", "D", "F", "-", "1", ".", "3">>

\* the contents a source is drawn from: two bytes that are no PDF, and a PDF
\* header
SourceData == {<<"a", "b">>, Tag13}

SourceKinds == {"buffer", "path", "url"}

\* what Ghostscript prints for the page count script
StdoutAlphabet == {"0", "7", "-", "\n"}

StdOuts == UNION {[1..n -> StdoutAlphabet] : n \in 0..MaxStdoutLen}

\* message prefixes of the catch blocks
AllocPrefix == "Unable to open tmp file: "
FetchPrefix == "Unable to fetch file from web location: "
WritePrefix == "Unable to write tmp file: "
ImagePrefix == "Unable to process image from page: "
VersionPrefix == "Failed to retrieve pdf version: "
CountPrefix == "Unable to get page count: "
NoTmpMessage == "No temporary pdf file!"

Prefixes == {AllocPrefix, FetchPrefix, WritePrefix, ImagePrefix, VersionPrefix, CountPrefix}

NoFile == [state |-> "free", role |-> "none", data |-> <<>>]

\* a file after its cleanup
Removed == [state |-> "removed", role |-> "none", data |-> <<>>]

\* options.pdfVersion when the caller gives one
OptionVersion == <<"1", ".", "4">>

\* the options of shrink: resolution (0 is undefined), pdfVersion (given or
\* not) and greyScale
DefaultShrinkDpi == 300

NoOptions == [resolution |-> 0, givenVersion |-> FALSE, greyScale |-> FALSE]

ShrinkOptions == [resolution : {0, 72}, givenVersion : BOOLEAN, greyScale : BOOLEAN]

OptionsOf(o) == IF o = "shrink" THEN ShrinkOptions ELSE {NoOptions}

NoCall ==
    [op |-> "none", options |-> NoOptions, dpi |-> 0, pdfVersion |-> <<>>, matPath |-> 0,
     inPath |-> 0,
     outFile |-> 0, readPath |-> 0, previousFileSize |-> -1, shrunkenFileSize |-> -1,
     buffer |-> <<>>, stdout |-> <<>>]

NoResult == [kind |-> "none", val |-> <<>>]

VARIABLES
    source,        \* this.source: its kind and its bytes
    tmpFile,       \* this.tmpFile: 0 is undefined, otherwise a file id
    fs,            \* the temp files: id -> state, role and bytes
    pc,            \* per slot: the await the call is suspended on
    call,          \* per slot: the arguments and local variables of the call
    result,        \* per slot: what the finished call returned or threw
    allocs,        \* session temp files allocated since construction or dispose
    fetches,       \* transfers of the source started since construction or dispose
    lastDisposed,  \* the file the last completed dispose removed, 0 if none
    overlap        \* whether two calls have ever been in flight together

vars == <<source, tmpFile, fs, pc, call, result, allocs, fetches, lastDisposed, overlap>>

history == <<allocs, fetches, lastDisposed>>

InFlight(p) == pc[p] \notin {"idle", "done"}

NextId == Cardinality({f \in Ids : fs[f].state # "free"}) + 1

IsLive(f) == f \in Ids /\ fs[f].state = "live"

SizeOf(f) == Len(fs[f].data)

Init ==
    /\ source \in [kind : SourceKinds, data : SourceData]
    /\ tmpFile = 0
    /\ fs = [f \in Ids |-> NoFile]
    /\ pc = [p \in Slots |-> "idle"]
    /\ call = [p \in Slots |-> NoCall]
    /\ result = [p \in Slots |-> NoResult]
    /\ allocs = 0
    /\ fetches = 0
    /\ lastDisposed = 0
    /\ overlap = FALSE

\* the call of slot p ends: it returns val
Return(p, val) ==
    /\ pc' = [pc EXCEPT ![p] = "done"]
    /\ result' = [result EXCEPT ![p] = [kind |-> "value", val |-> val]]

\* the call of slot p ends: it throws an error with the message msg, a
\* sequence of the prefixes added on the way out and the cause
Throw(p, msg) ==
    /\ pc' = [pc EXCEPT ![p] = "done"]
    /\ result' = [result EXCEPT ![p] = [kind |-> "error", val |-> msg]]

\* an error leaving writePDFToTemp: getPdfVersion awaits it inside its try
MatError(p, msg) == IF call[p].op = "getPdfVersion" THEN <<VersionPrefix>> \o msg ELSE msg

\* if (this.tmpFile) return;
NeedsMaterializeAlt == TRUE
NeedsMaterialize == tmpFile = 0


\* the bytes a failed transfer may leave in the file: a proper prefix of the
\* source, here nothing or all but the last byte
PartialData == {<<>>, SubSeq(source.data, 1, Len(source.data) - 1)}

\* the error a failed transfer throws: copyFile is awaited outside any try
TransferError ==
    CASE source.kind = "url" -> <<FetchPrefix, "fetch">>
      [] source.kind = "path" -> <<"copy">>
      [] source.kind = "buffer" -> <<WritePrefix, "write">>

\* ------------------------------------------------------------ the calls
\* a call of operation o starts and runs up to its first await: dispose
\* tests this.tmpFile and starts the cleanup, the others enter writePDFToTemp
Start(p, o, options) ==
    /\ ~InFlight(p)
    /\ call' = [call EXCEPT ![p] = [NoCall EXCEPT !.op = o, !.options = options,
                                                  !.inPath = IF o = "dispose" THEN tmpFile ELSE 0]]
    /\ overlap' = (overlap \/ \E q \in Slots \ {p} : InFlight(q))
    /\ IF o = "dispose"
       THEN IF tmpFile # 0
            THEN /\ pc' = [pc EXCEPT ![p] = "dispCleanup"]
                 /\ result' = [result EXCEPT ![p] = NoResult]
            ELSE Return(p, <<>>)
       ELSE /\ pc' = [pc EXCEPT ![p] = IF NeedsMaterialize THEN "alloc" ELSE "afterMat"]
            /\ result' = [result EXCEPT ![p] = NoResult]
    /\ UNCHANGED <<source, tmpFile, fs, history>>

\* writePDFToTemp: tmp.file() settles; on success this.tmpFile is assigned and
\* the transfer of the source is started: axios.get for a URL, otherwise
\* copyFile or writeFile on the path of the new file
AllocDone(p) ==
    /\ pc[p] = "alloc"
    /\ \/ /\ NextId \in Ids
          /\ fs' = [fs EXCEPT ![NextId] = [state |-> "live", role |-> "session", data |-> <<>>]]
          /\ tmpFile' = NextId
          /\ call' = [call EXCEPT ![p].matPath = NextId]
          /\ allocs' = allocs + 1
          /\ fetches' = fetches + 1
          /\ pc' = [pc EXCEPT ![p] = IF source.kind = "url" THEN "fetch" ELSE "write"]
          /\ UNCHANGED <<result, lastDisposed>>
       \/ /\ Throw(p, MatError(p, <<AllocPrefix, "alloc">>))
          /\ UNCHANGED <<fs, tmpFile, call, history>>
    /\ UNCHANGED <<source, overlap>>

\* writePDFToTemp, URL source: axios.get settles; on success the response is
\* piped into a write stream on this.tmpFile.path, read at this moment
FetchDone(p) ==
    /\ pc[p] = "fetch"
    /\ \/ IF tmpFile = 0
          THEN /\ Throw(p, MatError(p, <<FetchPrefix, "TypeError">>))
               /\ UNCHANGED call
          ELSE /\ call' = [call EXCEPT ![p].matPath = tmpFile]
               /\ pc' = [pc EXCEPT ![p] = "write"]
               /\ UNCHANGED result
       \/ /\ Throw(p, MatError(p, TransferError))
          /\ UNCHANGED call
    /\ UNCHANGED <<source, tmpFile, fs, history, overlap>>

\* writePDFToTemp: the stream, the copy or the write settles
WriteDone(p) ==
    /\ pc[p] = "write"
    /\ \/ /\ fs' = [fs EXCEPT ![call[p].matPath] =
                       [state |-> "live", role |-> "session", data |-> source.data]]
          /\ pc' = [pc EXCEPT ![p] = "afterMat"]
          /\ UNCHANGED result
       \/ /\ \E d \in PartialData :
                fs' = [fs EXCEPT ![call[p].matPath] =
                          [state |-> "live", role |-> "session", data |-> d]]
          /\ Throw(p, MatError(p, TransferError))
    /\ UNCHANGED <<source, tmpFile, call, history, overlap>>

\* the call resumes after await this.writePDFToTemp(): the test of
\* this.tmpFile, then the operation up to its next await
AfterMat(p) ==
    /\ pc[p] = "afterMat"
    /\ IF tmpFile = 0
       THEN /\ Throw(p, MatError(p, <<NoTmpMessage>>))
            /\ UNCHANGED call
       ELSE CASE call[p].op = "convertPageToImage" ->
                   /\ pc' = [pc EXCEPT ![p] = "opAlloc"]
                   /\ UNCHANGED <<call, result>>
              [] call[p].op = "shrink" ->
                   /\ pc' = [pc EXCEPT ![p] =
                                IF call[p].options.givenVersion THEN "opAlloc" ELSE "verCheck"]
                   /\ call' = [call EXCEPT
                                 ![p].dpi = IF call[p].options.resolution # 0
                                            THEN call[p].options.resolution
                                            ELSE DefaultShrinkDpi,
                                 ![p].pdfVersion = IF call[p].options.givenVersion
                                                   THEN OptionVersion
                                                   ELSE <<>>]
                   /\ UNCHANGED result
              [] call[p].op = "getPdfVersion" ->
                   /\ pc' = [pc EXCEPT ![p] = "verRead"]
                   /\ call' = [call EXCEPT ![p].inPath = tmpFile]
                   /\ UNCHANGED result
              [] call[p].op = "getPageCount" ->
                   /\ pc' = [pc EXCEPT ![p] = "exec"]
                   /\ call' = [call EXCEPT ![p].inPath = tmpFile]
                   /\ UNCHANGED result
    /\ UNCHANGED <<source, tmpFile, fs, history, overlap>>

\* shrink without options.pdfVersion: the nested getPdfVersion resumes after
\* its own await this.writePDFToTemp(), which returned at once
VerCheck(p) ==
    /\ pc[p] = "verCheck"
    /\ IF tmpFile = 0
       THEN /\ Throw(p, <<VersionPrefix, NoTmpMessage>>)
            /\ UNCHANGED call
       ELSE /\ pc' = [pc EXCEPT ![p] = "verRead"]
            /\ call' = [call EXCEPT ![p].inPath = tmpFile]
            /\ UNCHANGED result
    /\ UNCHANGED <<source, tmpFile, fs, history, overlap>>

\* getPdfVersion: the read stream yields its first chunk, or fails
VerRead(p) ==
    /\ pc[p] = "verRead"
    /\ \/ /\ IsLive(call[p].inPath)
          /\ LET version == PdfVersionOf(fs[call[p].inPath].data)
             IN IF call[p].op = "shrink"
                THEN /\ call' = [call EXCEPT ![p].pdfVersion = version]
                     /\ pc' = [pc EXCEPT ![p] = "opAlloc"]
                     /\ UNCHANGED result
                ELSE /\ Return(p, version)
                     /\ UNCHANGED call
       \/ /\ Throw(p, <<VersionPrefix, "read">>)
          /\ UNCHANGED call
    /\ UNCHANGED <<source, tmpFile, fs, history, overlap>>


\* if (previousFileSize <= shrunkenFileSize): the input is passed as output
KeepsInputAlt(previousFileSize, shrunkenFileSize) == previousFileSize < shrunkenFileSize
KeepsInput(previousFileSize, shrunkenFileSize) == previousFileSize <= shrunkenFileSize

\* the bytes Ghostscript may write to its output file
ConverterOutputs == {Repeat("z", n) : n \in 0..MaxOutLen}

\* convertPageToImage and shrink: tmp.file() for the output settles; on
\* success the arguments are built from this.tmpFile.path and the options,
\* which are not used again, and gs is started
OpAllocDone(p) ==
    /\ pc[p] = "opAlloc"
    /\ \/ /\ NextId \in Ids
          /\ fs' = [fs EXCEPT ![NextId] = [state |-> "live", role |-> "op", data |-> <<>>]]
          /\ IF tmpFile = 0
             THEN /\ Throw(p, <<ImagePrefix, "TypeError">>)
                  /\ call' = [call EXCEPT ![p].outFile = NextId]
             ELSE /\ call' = [call EXCEPT ![p].outFile = NextId, ![p].inPath = tmpFile,
                                           ![p].options = NoOptions, ![p].dpi = 0,
                                           ![p].pdfVersion = <<>>]
                  /\ pc' = [pc EXCEPT ![p] = "exec"]
                  /\ UNCHANGED result
       \/ /\ Throw(p, <<ImagePrefix, "alloc">>)
          /\ UNCHANGED <<fs, call>>
    /\ UNCHANGED <<source, tmpFile, history, overlap>>

\* what the catch block of convertPageToImage and of shrink does to the
\* session when the converter or the read of its output failed: nothing
ConverterFailedAlt(p) ==
    /\ Throw(p, <<ImagePrefix, IF pc[p] = "exec" THEN "gs" ELSE "read">>)
    /\ tmpFile' = 0
    /\ UNCHANGED <<fs, call>>
ConverterFailed(p) ==
    /\ Throw(p, <<ImagePrefix, IF pc[p] = "exec" THEN "gs" ELSE "read">>)
    /\ UNCHANGED <<tmpFile, fs, call>>

\* the gs process settles.  getPageCount parses its stdout; convertPageToImage
\* starts reading the image; shrink stats both files, picks one and starts
\* reading it
ExecDone(p) ==
    /\ pc[p] = "exec"
    /\ CASE call[p].op = "getPageCount" ->
              /\ \/ /\ IsLive(call[p].inPath)
                    /\ \E stdout \in StdOuts :
                          /\ call' = [call EXCEPT ![p].stdout = stdout]
                          /\ Return(p, PageCountOf(stdout))
                 \/ /\ Throw(p, <<CountPrefix, "gs">>)
                    /\ UNCHANGED call
              /\ UNCHANGED <<tmpFile, fs>>
         [] call[p].op = "convertPageToImage" ->
              \/ /\ IsLive(call[p].inPath)
                 /\ \E out \in ConverterOutputs :
                       fs' = [fs EXCEPT ![call[p].outFile].data = out]
                 /\ call' = [call EXCEPT ![p].readPath = call[p].outFile]
                 /\ pc' = [pc EXCEPT ![p] = "read"]
                 /\ UNCHANGED <<tmpFile, result>>
              \/ ConverterFailed(p)
         [] call[p].op = "shrink" ->
              \/ /\ IsLive(call[p].inPath)
                 /\ \E out \in ConverterOutputs :
                       /\ fs' = [fs EXCEPT ![call[p].outFile].data = out]
                       /\ IF IsLive(tmpFile)
                          THEN LET previousFileSize == SizeOf(tmpFile)
                                   shrunkenFileSize == Len(out)
                               IN /\ call' = [call EXCEPT
                                        ![p].previousFileSize = previousFileSize,
                                        ![p].shrunkenFileSize = shrunkenFileSize,
                                        ![p].readPath =
                                            IF KeepsInput(previousFileSize, shrunkenFileSize)
                                            THEN tmpFile
                                            ELSE call[p].outFile]
                                  /\ pc' = [pc EXCEPT ![p] = "read"]
                                  /\ UNCHANGED result
                          ELSE /\ Throw(p, <<ImagePrefix, "stat">>)
                               /\ UNCHANGED call
                 /\ UNCHANGED tmpFile
              \/ ConverterFailed(p)
    /\ UNCHANGED <<source, history, overlap>>

\* readFile settles; on success the cleanup of the output file is started
ReadDone(p) ==
    /\ pc[p] = "read"
    /\ \/ /\ IsLive(call[p].readPath)
          /\ call' = [call EXCEPT ![p].buffer = fs[call[p].readPath].data]
          /\ pc' = [pc EXCEPT ![p] = "cleanup"]
          /\ UNCHANGED <<tmpFile, fs, result>>
       \/ ConverterFailed(p)
    /\ UNCHANGED <<source, history, overlap>>

\* the cleanup of the output file settles; on success the buffer is returned
CleanupDone(p) ==
    /\ pc[p] = "cleanup"
    /\ \/ /\ fs' = [fs EXCEPT ![call[p].outFile] = Removed]
          /\ Return(p, call[p].buffer)
       \/ /\ Throw(p, <<ImagePrefix, "cleanup">>)
          /\ UNCHANGED fs
    /\ UNCHANGED <<source, tmpFile, call, history, overlap>>

\* this.tmpFile = undefined
ClearedRefAlt == tmpFile
ClearedRef == 0

\* dispose: the cleanup of the session file settles; on success the reference
\* is cleared, on failure the error leaves dispose as it is
DisposeDone(p) ==
    /\ pc[p] = "dispCleanup"
    /\ \/ /\ fs' = [fs EXCEPT ![call[p].inPath] = Removed]
          /\ tmpFile' = ClearedRef
          /\ allocs' = 0
          /\ fetches' = 0
          /\ lastDisposed' = call[p].inPath
          /\ Return(p, <<>>)
       \/ /\ Throw(p, <<"cleanup">>)
          /\ UNCHANGED <<fs, tmpFile, history>>
    /\ UNCHANGED <<source, call, overlap>>

Step(p) ==
    \/ AllocDone(p)
    \/ FetchDone(p)
    \/ WriteDone(p)
    \/ AfterMat(p)
    \/ VerCheck(p)
    \/ VerRead(p)
    \/ OpAllocDone(p)
    \/ ExecDone(p)
    \/ ReadDone(p)
    \/ CleanupDone(p)
    \/ DisposeDone(p)

\* the caller awaits every call before making the next: one slot is enough
StartSerial == \E o \in Ops : \E options \in OptionsOf(o) : Start(1, o, options)

Next == StartSerial \/ Step(1)

Spec == Init /\ [][Next]_vars

\* operation calls are started while others are in flight, the second slot
\* being used only for a call that overlaps one of the first; dispose is
\* called only when no call is in flight, and no call is started during it
ConcurrentOps == {"getPdfVersion", "convertPageToImage", "dispose"}

StartConcurrent ==
    \E p \in Slots : \E o \in ConcurrentOps :
        /\ o = "dispose" => \A q \in Slots : ~InFlight(q)
        /\ \A q \in Slots : pc[q] # "dispCleanup"
        /\ p # 1 => InFlight(1)
        /\ Start(p, o, NoOptions)

StepConcurrent ==
    \E p \in Slots :
        \/ AllocDone(p)
        \/ FetchDone(p)
        \/ WriteDone(p)
        \/ AfterMat(p)
        \/ VerRead(p)
        \/ OpAllocDone(p)
        \/ ExecDone(p)
        \/ ReadDone(p)
        \/ CleanupDone(p)
        \/ DisposeDone(p)

NextConc == StartConcurrent \/ StepConcurrent

\* the session of the concurrent callers: a PDF behind a URL
InitConc == Init /\ source = [kind |-> "url", data |-> Tag13]

SpecConc == InitConc /\ [][NextConc]_vars


\* ------------------------------------------------------------ version query
\* the sessions of the version query: a buffer holding filler bytes, the
\* text %PDF- followed by every tail over TailAlphabet, and possibly a second,
\* well-formed header; the filler puts the tail inside the first chunk, across
\* its end, or (with no filler) at the start of the file
TailAlphabet == {"1", ".", "-", "\n", " "}

Tails == [1..MaxTail -> TailAlphabet]

Fillers == {0, ReadEnd - 7, ReadEnd - 6}

VersionFiles ==
    {Repeat("x", n) \o <<"%", "P", "D", "F", "-">> \o t \o rest :
        n \in Fillers, t \in Tails, rest \in {<<>>, Tag13}}

InitVersion ==
    /\ source \in [kind : {"buffer"}, data : VersionFiles]
    /\ tmpFile = 0
    /\ fs = [f \in Ids |-> NoFile]
    /\ pc = [p \in Slots |-> "idle"]
    /\ call = [p \in Slots |-> NoCall]
    /\ result = [p \in Slots |-> NoResult]
    /\ allocs = 0
    /\ fetches = 0
    /\ lastDisposed = 0
    /\ overlap = FALSE

StartVersion == Start(1, "getPdfVersion", NoOptions)

NextVersion ==
    \/ StartVersion
    \/ AllocDone(1)
    \/ WriteDone(1)
    \/ AfterMat(1)
    \/ VerRead(1)

SpecVersion == InitVersion /\ [][NextVersion]_vars


\* ------------------------------------------------------------ properties
\* the awaits of an operation that lie after its materialization step
PastMaterialize == {"verCheck", "verRead", "opAlloc", "exec", "read", "cleanup"}

LiveFiles(role) == {f \in Ids : fs[f].state = "live" /\ fs[f].role = role}

Finished(o) == pc[1] = "done" /\ call[1].op = o

Returned(o) == Finished(o) /\ result[1].kind = "value"

Threw(o) == Finished(o) /\ result[1].kind = "error"

\* C1: a buffer returned by shrink is no longer than the materialized input
\* file, and it is the input file's bytes whenever the converter's output is
\* not strictly smaller than the input
C1_ShrinkNeverGrows ==
    Returned("shrink") =>
        /\ Len(result[1].val) <= SizeOf(tmpFile)
        /\ call[1].shrunkenFileSize >= SizeOf(tmpFile) => result[1].val = fs[tmpFile].data

\* shrink returned the input because the output had exactly the input's size
C1_Witness ==
    /\ Returned("shrink")
    /\ call[1].shrunkenFileSize = call[1].previousFileSize
    /\ call[1].shrunkenFileSize > 0
    /\ result[1].val = source.data

\* C2: between disposes at most one session temp file is allocated and the
\* source is transferred at most once, and a call that is past its
\* materialization step runs with exactly one allocation and one transfer
C2_MaterializeOnce ==
    /\ allocs <= 1
    /\ fetches <= 1
    /\ Cardinality(LiveFiles("session")) <= 1
    /\ pc[1] \in PastMaterialize => allocs = 1 /\ fetches = 1 /\ LiveFiles("session") = {tmpFile}

\* the getPdfVersion nested in a shrink that follows an earlier call (the one
\* that allocated the second file) reads the file allocated by the first call
C2_Witness ==
    /\ pc[1] = "verRead"
    /\ call[1].op = "shrink"
    /\ lastDisposed = 0
    /\ NextId = 3
    /\ allocs = 1
    /\ fetches = 1
    /\ call[1].inPath = 1

\* C3: a completed dispose leaves no reference and no file; the next call
\* allocates a fresh file and materializes again; dispose without a
\* reference changes nothing
C3_DisposeThenFresh ==
    /\ [](Returned("dispose") => tmpFile = 0 /\ ~IsLive(call[1].inPath))
    /\ [](pc[1] \in PastMaterialize /\ lastDisposed # 0 =>
            tmpFile # lastDisposed /\ IsLive(tmpFile) /\ allocs = 1 /\ fetches = 1)
    /\ [][pc[1] = "dispCleanup" /\ result'[1].kind = "value" =>
            /\ tmpFile # 0
            /\ tmpFile' = 0
            /\ fs'[tmpFile].state = "removed"]_vars
    /\ [][pc[1] = "done" /\ tmpFile = 0 /\ pc'[1] \notin {"done", "dispCleanup"} =>
            pc'[1] = "alloc"]_vars
    /\ [][pc[1] = "alloc" /\ pc'[1] \in {"fetch", "write"} =>
            /\ tmpFile' # 0
            /\ fs[tmpFile'].state = "free"
            /\ fs'[tmpFile'].state = "live"]_vars
    /\ [][pc[1] \in {"idle", "done"} /\ pc'[1] = "done" /\ call'[1].op = "dispose" =>
            /\ tmpFile = 0
            /\ result'[1].kind = "value"
            /\ UNCHANGED <<tmpFile, fs, source>>]_vars

\* a call after a dispose is past its materialization step, on a new file
\* that holds the source, and the disposed file is gone
C3_Witness ==
    /\ pc[1] \in PastMaterialize
    /\ lastDisposed # 0
    /\ tmpFile \notin {0, lastDisposed}
    /\ fs[lastDisposed].state = "removed"
    /\ fs[tmpFile].data = source.data

\* C4: every error of a convertPageToImage, shrink, getPdfVersion or
\* getPageCount call starts with the prefix of a catch block, followed by the
\* cause
C4_ErrorsCarryPrefix ==
    \A o \in Ops \ {"dispose"} :
        Threw(o) => Len(result[1].val) >= 2 /\ result[1].val[1] \in Prefixes

\* the header pattern as the claim words it: any single character between the
\* digits
C5_AnyCharTagAt(w, i) ==
    /\ i + 7 <= Len(w)
    /\ <<w[i], w[i + 1], w[i + 2], w[i + 3], w[i + 4]>> = <<"%", "P", "D", "F", "-">>
    /\ w[i + 5] \in Digits
    /\ w[i + 7] \in Digits

\* the header pattern with a character that is no line terminator
C5_TagAt(w, i) == C5_AnyCharTagAt(w, i) /\ w[i + 6] \notin {"\n", "\r"}

\* the first 1025 bytes of the file getPdfVersion read
C5_Prefix == SubSeq(fs[call[1].inPath].data, 1, Min(1025, Len(fs[call[1].inPath].data)))

C5_First(S) == CHOOSE i \in S : \A j \in S : i <= j

RECURSIVE C6_Digits(_, _, _)
C6_Digits(s, acc, seen) ==
    IF s = <<>> THEN (IF seen THEN <<acc>> ELSE <<>>)
    ELSE IF Head(s) \in Digits
         THEN C6_Digits(Tail(s), 10 * acc + (CHOOSE n \in 0..9 : ToString(n) = Head(s)), TRUE)
         ELSE C6_Digits(Tail(s), acc, seen)

\* C6: when the page count process succeeds getPageCount returns the number
\* spelt by the digits of stdout, NaN when there is none; once the converter
\* was started, the only error is the failure of the process
C6_PageCountParse ==
    /\ Returned("getPageCount") => result[1].val = C6_Digits(call[1].stdout, 0, FALSE)
    /\ Threw("getPageCount") /\ call[1].inPath # 0 => result[1].val = <<CountPrefix, "gs">>

\* stdout holds characters but no digit, and NaN is returned, not thrown
C6_Witness ==
    /\ Returned("getPageCount")
    /\ call[1].stdout # <<>>
    /\ \A i \in 1..Len(call[1].stdout) : call[1].stdout[i] \notin Digits
    /\ result[1].val = NaN

\* C7: when no call is in flight, no output temp file of convertPageToImage
\* or shrink is left
C7_OutputFilesRemoved == pc[1] \in {"idle", "done"} => LiveFiles("op") = {}

\* C8: a failure of the converter or of the read of its output leaves the
\* reference and the session file as they were, and the next operation goes
\* on with that file without materializing
C8_FailureKeepsSession ==
    /\ [][pc[1] \in {"exec", "read"} /\ pc'[1] = "done" /\ result'[1].kind = "error" =>
            /\ tmpFile # 0
            /\ tmpFile' = tmpFile
            /\ fs'[tmpFile] = fs[tmpFile]
            /\ fs[tmpFile].state = "live"]_vars
    /\ [][/\ pc[1] = "done"
          /\ result[1].kind = "error"
          /\ result[1].val[Len(result[1].val)] \in {"gs", "read"}
          /\ pc'[1] \in {"alloc", "afterMat"}
          => /\ pc'[1] = "afterMat"
             /\ UNCHANGED <<tmpFile, fs, allocs, fetches>>]_vars

\* a call has resumed after writePDFToTemp on the one session file ever
\* allocated, while the output file of an earlier, failed call is still there
C8_Witness ==
    /\ pc[1] = "exec"
    /\ lastDisposed = 0
    /\ NextId = 3
    /\ LiveFiles("op") = {2}
    /\ call[1].op = "getPageCount"
    /\ call[1].inPath = 1
    /\ allocs = 1

\* C9: as long as no two calls were in flight together at most one session
\* temp file exists, and it is the referenced one
C9_SerializedOneFile ==
    ~overlap => Cardinality(LiveFiles("session")) <= 1 /\ LiveFiles("session") \subseteq {tmpFile}

\* after two overlapping first calls and a completed dispose, with no call in
\* flight and no reference left, a session temp file still exists
C9_Witness ==
    /\ overlap
    /\ \A p \in Slots : ~InFlight(p)
    /\ Returned("dispose")
    /\ tmpFile = 0
    /\ lastDisposed = 2
    /\ LiveFiles("session") = {1}

\* C10: a call that is past its materialization step works on a session file
\* that holds a complete copy of the source
C10_CompleteCopy ==
    pc[1] \in PastMaterialize => IsLive(tmpFile) /\ fs[tmpFile].data = source.data

====
